---- MODULE Spec2Model ----
(***************************************************************************)
(* Startup / shutdown orchestration of the bot process (src/main.ts) and   *)
(* the /start feature (src/bot/features/start.ts, helpers/logging.ts).     *)
(*                                                                         *)
(* The process is a single-threaded event loop.  One action of this module *)
(* is one run-to-completion stretch of JavaScript: a synchronous stretch   *)
(* together with the promise continuations (microtasks) it triggers.       *)
(* Signal handlers, I/O completions and incoming updates are delivered     *)
(* between such stretches only.                                            *)
(***************************************************************************)
EXTENDS Integers, Sequences, FiniteSets, TLC

(* ---------------------------- bounds ----------------------------------- *)
\* number of SIGINT/SIGTERM deliveries explored
MaxSignals == 3
\* number of incoming updates explored
MaxUpdates == 2

(* ------------------------- configuration ------------------------------- *)
\* config.* values read by main.ts; immutable for the process lifetime
config ==
  [ BOT_ALLOWED_UPDATES |-> <<"message", "callback_query">>,
    BOT_WEBHOOK         |-> "https://bot.example/webhook",
    BOT_WEBHOOK_SECRET  |-> "s3cret",
    BOT_SERVER_HOST     |-> "localhost",
    BOT_SERVER_PORT     |-> 3000 ]

Modes == {"polling", "webhook"}
Signals == {"SIGINT", "SIGTERM"}

\* AddressInfo values the listener may report once bound
AddressInfos ==
  { [address |-> "127.0.0.1", port |-> 3000, family |-> "IPv4"],
    [address |-> "::1",       port |-> 3000, family |-> "IPv6"],
    [address |-> "0.0.0.0",   port |-> 8080, family |-> "IPv4"],
    [address |-> "::",        port |-> 8080, family |-> "IPv6"],
    \* Node 18.0-18.3 reported the family as a number, printed here as "6"
    [address |-> "::1",       port |-> 3000, family |-> "6"] }

NoInfo == [address |-> "", port |-> 0, family |-> ""]

\* argument records of the framework calls; None* = call not made
NoStartArgs == [allowed_updates |-> <<>>, onStart |-> FALSE]
NoWebhookArgs == [url |-> "", allowed_updates |-> <<>>, secret_token |-> ""]

(* ----------------------------- updates --------------------------------- *)
ChatTypes == {"private", "group", "supergroup", "channel"}
\* the bot command carried by the message
Commands == {"start", "help"}
\* from.username: <<>> when the sender has none, <<u>> when it is u
Usernames == {<<>>, <<"">>, <<"alice">>}
Updates == [chatType : ChatTypes, command : Commands, username : Usernames]
NoUpdate == [chatType |-> "", command |-> "", username |-> <<>>]

\* update_id values of the updates given to a middleware
UpdateIds == {7, 8}
\* ctx.update: the update together with its update_id
WithId(u, i) ==
  [update_id |-> i, chatType |-> u.chatType, command |-> u.command,
   username |-> u.username]
CtxUpdates == {WithId(u, i) : u \in Updates, i \in UpdateIds}
NoCtxUpdate == WithId(NoUpdate, 0)

\* handler ids, as sequences of characters
IdUnhandledUpdate ==
  <<"u", "n", "h", "a", "n", "d", "l", "e", "d", "-", "u", "p", "d", "a", "t", "e">>
IdUnhandled == <<"u", "n", "h", "a", "n", "d", "l", "e", "d">>
IdUnhandledX == <<"u", "n", "h", "a", "n", "d", "l", "e", "d", "X">>
IdCommandStart ==
  <<"c", "o", "m", "m", "a", "n", "d", "-", "s", "t", "a", "r", "t">>
IdUnhandle == <<"u", "n", "h", "a", "n", "d", "l", "e">>
IdCapital ==
  <<"U", "n", "h", "a", "n", "d", "l", "e", "d", "-", "x">>
IdInner == <<"x", "-", "u", "n", "h", "a", "n", "d", "l", "e", "d">>
HandlerIds ==
  {IdUnhandledUpdate, IdUnhandled, IdUnhandledX, IdCommandStart, IdUnhandle,
   IdCapital, IdInner, <<>>}

(* ------------------------------ state ---------------------------------- *)
VARIABLES
  mode,            \* config.BOT_MODE
  pc,              \* position of the top-level startup path
  exited,          \* the process has ended
  exitCode,        \* its exit status (meaningful when exited)
  handlers,        \* signals for which process.on registered handleShutdown
  isShuttingDown,  \* the flag of onShutdown's closure
  signals,         \* signals delivered to the process so far, in order
  cleanUpAt,       \* indices (into signals) of deliveries that invoked cleanUp
  cleanup,         \* progress of the cleanUp promise
  polling,         \* state of the bot's poll loop (bot.start)
  startCalls,      \* number of bot.start calls
  startArgs,       \* arguments of the last bot.start call
  stopCalls,       \* number of bot.stop calls
  initCalls,       \* number of bot.init calls
  botInited,       \* bot.init has completed
  serverHandle,    \* serverHandle of startWebhook is defined
  server,          \* state of the HTTP listener
  serveCalls,      \* number of serve(...) calls
  boundInfo,       \* AddressInfo reported by the listener
  closeCalls,      \* number of serverHandle.close calls
  closeCbFired,    \* the callback given to close has been called
  webhookCalls,    \* number of bot.api.setWebhook calls
  webhookArgs,     \* arguments of the last setWebhook call
  steps,           \* startup steps performed, in order
  failed,          \* the startup step that failed ("none" if none)
  catches,         \* number of times the top-level catch ran
  log,             \* events emitted through logger
  lastUpdate,      \* the update dispatched last
  updatesSeen,     \* number of updates dispatched
  handled,         \* updates for which the /start handler chain ran
  replies,         \* ctx.reply calls made by the /start handler
  ctxLog,          \* events emitted through ctx.logger
  mwId,            \* id given to logHandle for the middleware under study
  mwCtx,           \* ctx.update the middleware is invoked with
  mwPc,            \* position inside the middleware
  mwEvents,        \* events the middleware emitted through ctx.logger
  mwNextCalls      \* number of next() calls the middleware made

procVars   == <<mode, pc, exited, exitCode>>
shutVars   == <<handlers, isShuttingDown, signals, cleanUpAt, cleanup>>
pollVars   == <<polling, startCalls, startArgs, stopCalls>>
hookVars   == <<initCalls, botInited, serverHandle, server, serveCalls,
                boundInfo, closeCalls, closeCbFired, webhookCalls, webhookArgs>>
histVars   == <<steps, failed, catches, log>>
updVars    == <<lastUpdate, updatesSeen, handled, replies, ctxLog>>
mwVars     == <<mwId, mwCtx, mwPc, mwEvents, mwNextCalls>>
vars == <<procVars, shutVars, pollVars, hookVars, histVars, updVars, mwVars>>

(* --------------------------- log events -------------------------------- *)
LogInfo(msg, detail) == [level |-> "info", msg |-> msg, detail |-> detail]
LogError(err) == [level |-> "error", msg |-> err, detail |-> ""]

HasMsg(l, msg) == \E i \in 1..Len(l) : l[i].msg = msg
CountLevel(l, lvl) == Cardinality({i \in 1..Len(l) : l[i].level = lvl})

\* the process before anything of main.ts has run
ProcInit ==
  /\ mode \in Modes
  /\ pc = "boot"
  /\ exited = FALSE
  /\ exitCode = 0
  /\ handlers = {}
  /\ isShuttingDown = FALSE
  /\ signals = <<>>
  /\ cleanUpAt = <<>>
  /\ cleanup = "idle"
  /\ polling = "off"
  /\ startCalls = 0
  /\ startArgs = NoStartArgs
  /\ stopCalls = 0
  /\ initCalls = 0
  /\ botInited = FALSE
  /\ serverHandle = FALSE
  /\ server = "absent"
  /\ serveCalls = 0
  /\ boundInfo = NoInfo
  /\ closeCalls = 0
  /\ closeCbFired = FALSE
  /\ webhookCalls = 0
  /\ webhookArgs = NoWebhookArgs
  /\ steps = <<>>
  /\ failed = "none"
  /\ catches = 0
  /\ log = <<>>
  /\ lastUpdate = NoUpdate
  /\ updatesSeen = 0
  /\ handled = <<>>
  /\ replies = <<>>
  /\ ctxLog = <<>>

\* no middleware under study
Init ==
  /\ ProcInit
  /\ mwId = <<>>
  /\ mwCtx = NoCtxUpdate
  /\ mwPc = "idle"
  /\ mwEvents = <<>>
  /\ mwNextCalls = 0

(* ------------------------ process termination -------------------------- *)
\* exit statuses of the runtime: killed by a signal with default disposition
SignalExit(sig) == IF sig = "SIGINT" THEN 130 ELSE 143

\* mutant: the catch clause logs the error but does not end the process
TopLevelCatchNoExit(step) ==
  /\ catches' = catches + 1
  /\ failed' = step
  /\ log' = Append(log, LogError(step))
  /\ exited' = exited
  /\ exitCode' = exitCode

\* mutant: the catch clause ends the process without logging the error
TopLevelCatchNoLog(step) ==
  /\ catches' = catches + 1
  /\ failed' = step
  /\ log' = log
  /\ exited' = TRUE
  /\ exitCode' = 1

\* main.ts 106-109: the catch clause of the top-level try: logger.error(error)
\* and then process.exit(1); `step` is the startup step whose error arrived
TopLevelCatch(step) ==
  /\ catches' = catches + 1
  /\ failed' = step
  /\ log' = Append(log, LogError(step))
  /\ exited' = TRUE
  /\ exitCode' = 1

\* an 'error' event nobody listens to (or a rejection nobody handles):
\* the runtime's default fault behaviour ends the process with status 1,
\* without passing through the catch clause or logger
UncaughtFault ==
  /\ exited' = TRUE
  /\ exitCode' = 1

\* mutant: the two branches of the mode test are swapped
DispatchSwapped ==
  IF mode = "webhook" THEN "startPolling"
  ELSE IF mode = "polling" THEN "startWebhook"
  ELSE "none"

\* main.ts 100-105: which path the mode flag selects
Dispatch ==
  IF mode = "webhook" THEN "startWebhook"
  ELSE IF mode = "polling" THEN "startPolling"
  ELSE "none"

(* ------------------------ shutdown coordinator ------------------------- *)
\* main.ts 23-24: process.on("SIGINT", ...), process.on("SIGTERM", ...);
\* line 16: the flag starts false
onShutdown ==
  /\ handlers' = handlers \cup {"SIGINT", "SIGTERM"}
  /\ isShuttingDown' = FALSE

\* main.ts 34-36: cleanUp of the polling path: await bot.stop().
\* bot.stop() ends a live poll loop and completes once the update offset is
\* confirmed.  While bot.start is still setting up, the framework either
\* takes the stop (the loop never becomes live) or ignores it.
pollingCleanUp ==
  /\ stopCalls' = stopCalls + 1
  /\ \/ /\ polling = "live"
        /\ polling' = "stopping"
        /\ cleanup' = "running"
     \/ /\ polling = "starting"
        /\ \/ polling' = "stopping" /\ cleanup' = "running"
           \/ polling' = polling /\ cleanup' = "done"
     \/ /\ polling \notin {"live", "starting"}
        /\ polling' = polling
        /\ cleanup' = "done"
  /\ UNCHANGED <<serverHandle, server, closeCalls, closeCbFired>>

\* mutant: close is called but the promise resolves without waiting for the
\* close callback
stopServerNoWait ==
  /\ IF serverHandle
       THEN /\ closeCalls' = closeCalls + 1
            /\ server' = IF server = "listening" THEN "closing" ELSE server
       ELSE /\ closeCalls' = closeCalls
            /\ server' = server
  /\ cleanup' = "done"
  /\ UNCHANGED <<serverHandle, closeCbFired, polling, stopCalls>>

\* main.ts 67-74: stopServer: with a handle, close it and resolve in the
\* close callback; without one, resolve at once
stopServer ==
  /\ IF serverHandle
       THEN /\ closeCalls' = closeCalls + 1
            /\ server' = IF server = "listening" THEN "closing" ELSE server
            /\ cleanup' = "running"
       ELSE /\ closeCalls' = closeCalls
            /\ server' = server
            /\ cleanup' = "done"
  /\ UNCHANGED <<serverHandle, closeCbFired, polling, stopCalls>>

\* main.ts 76-78: cleanUp of the webhook path: await stopServer()
webhookCleanUp == stopServer

\* the cleanUp closure handed to onShutdown by the path that registered it
cleanUp == IF mode = "polling" THEN pollingCleanUp ELSE webhookCleanUp

\* mutant: the isShuttingDown test is missing
handleShutdownNoGuard ==
  /\ isShuttingDown' = TRUE
  /\ log' = Append(log, LogInfo("Shutdown", ""))
  /\ cleanUpAt' = Append(cleanUpAt, Len(signals) + 1)
  /\ cleanUp

\* mutant: the flag is set after `await cleanUp()` instead of before it
handleShutdownFlagLate ==
  IF isShuttingDown
    THEN UNCHANGED <<isShuttingDown, log, cleanUpAt, cleanup, polling,
                     stopCalls, serverHandle, server, closeCalls, closeCbFired>>
    ELSE /\ log' = Append(log, LogInfo("Shutdown", ""))
         /\ cleanUpAt' = Append(cleanUpAt, Len(signals) + 1)
         /\ cleanUp
         /\ isShuttingDown' = (cleanup' = "done")

\* main.ts 17-22: handleShutdown, up to its await
handleShutdown ==
  IF isShuttingDown
    THEN UNCHANGED <<isShuttingDown, log, cleanUpAt, cleanup, polling,
                     stopCalls, serverHandle, server, closeCalls, closeCbFired>>
    ELSE /\ isShuttingDown' = TRUE
         /\ log' = Append(log, LogInfo("Shutdown", ""))
         /\ cleanUpAt' = Append(cleanUpAt, Len(signals) + 1)
         /\ cleanUp

\* a SIGINT or SIGTERM is delivered to the running process: handleShutdown
\* if process.on registered it, else the default disposition kills the process
Signal(sig) ==
  /\ ~exited
  /\ Len(signals) < MaxSignals
  /\ signals' = Append(signals, sig)
  /\ IF sig \in handlers
       THEN /\ handleShutdown
            /\ UNCHANGED <<exited, exitCode>>
       ELSE /\ exited' = TRUE
            /\ exitCode' = SignalExit(sig)
            /\ UNCHANGED <<isShuttingDown, log, cleanUpAt, cleanup, polling,
                           stopCalls, serverHandle, server, closeCalls,
                           closeCbFired>>
  /\ UNCHANGED <<mode, pc, handlers, startCalls, startArgs, initCalls,
                 botInited, serveCalls, boundInfo, webhookCalls, webhookArgs,
                 steps, failed, catches, updVars, mwVars>>

SignalDelivery == \E sig \in Signals : Signal(sig)

(* --------------------------- polling path ------------------------------ *)
\* main.ts 31-37: startPolling up to its await: createBot, onShutdown,
\* then bot.start({allowed_updates, onStart}) is called
startPolling ==
  /\ onShutdown
  /\ startCalls' = startCalls + 1
  /\ startArgs' = [allowed_updates |-> config.BOT_ALLOWED_UPDATES,
                   onStart |-> TRUE]
  /\ polling' = "starting"
  /\ pc' = "polling"
  /\ UNCHANGED <<initCalls, steps>>

BeginPolling ==
  /\ ~exited
  /\ pc = "boot"
  /\ Dispatch = "startPolling"
  /\ startPolling
  /\ UNCHANGED <<mode, exited, exitCode, signals, cleanUpAt, cleanup,
                 stopCalls, botInited, serverHandle, server, serveCalls,
                 boundInfo, closeCalls, closeCbFired, webhookCalls,
                 webhookArgs, failed, catches, log, updVars, mwVars>>

\* main.ts 39-43: onStart: the poll loop is live, "Bot running..." is logged
StartLive ==
  /\ ~exited
  /\ pc = "polling"
  /\ polling = "starting"
  /\ polling' = "live"
  /\ log' = Append(log, LogInfo("Bot running...", "bot_username"))
  /\ UNCHANGED <<procVars, shutVars, startCalls, startArgs, stopCalls,
                 hookVars, steps, failed, catches, updVars, mwVars>>

\* main.ts 37, 104, 106-109: the awaited bot.start rejects (setup failed or
\* the loop hit a fatal error); the error reaches the top-level catch
StartReject ==
  /\ ~exited
  /\ pc = "polling"
  /\ polling \in {"starting", "live"}
  /\ TopLevelCatch("start")
  /\ polling' = "ended"
  /\ pc' = "caught"
  /\ UNCHANGED <<mode, shutVars, startCalls, startArgs, stopCalls, hookVars,
                 steps, updVars, mwVars>>

\* mutant: bot.start is not awaited: startPolling returns with the loop live
StartReturnNotAwaited ==
  /\ ~exited
  /\ pc = "polling"
  /\ polling \in {"live", "stopping"}
  /\ polling' = IF polling = "stopping" THEN "ended" ELSE polling
  /\ pc' = "returned"
  /\ UNCHANGED <<mode, exited, exitCode, shutVars, startCalls, startArgs,
                 stopCalls, hookVars, histVars, updVars, mwVars>>

\* main.ts 37, 45: the poll loop has been stopped: bot.start resolves and
\* startPolling returns
StartReturn ==
  /\ ~exited
  /\ pc = "polling"
  /\ polling = "stopping"
  /\ polling' = "ended"
  /\ pc' = "returned"
  /\ UNCHANGED <<mode, exited, exitCode, shutVars, startCalls, startArgs,
                 stopCalls, hookVars, histVars, updVars, mwVars>>

\* main.ts 35, 21: the awaited bot.stop() resolves: cleanUp is complete
StopResolve ==
  /\ ~exited
  /\ mode = "polling"
  /\ cleanup = "running"
  /\ cleanup' = "done"
  /\ UNCHANGED <<procVars, handlers, isShuttingDown, signals, cleanUpAt,
                 pollVars, hookVars, histVars, updVars, mwVars>>

\* mutant: handleShutdown catches the rejection and clears the flag so that
\* the next signal tries again
StopRejectResetsFlag ==
  /\ ~exited
  /\ mode = "polling"
  /\ cleanup = "running"
  /\ cleanup' = "failed"
  /\ isShuttingDown' = FALSE
  /\ UNCHANGED <<procVars, handlers, signals, cleanUpAt, pollVars, hookVars,
                 histVars, updVars, mwVars>>

\* main.ts 35, 21: the awaited bot.stop() rejects; handleShutdown has no
\* catch, so its promise rejects unhandled: depending on the runtime's
\* unhandled-rejection mode the process dies with status 1 or carries on
StopReject ==
  /\ ~exited
  /\ mode = "polling"
  /\ cleanup = "running"
  /\ cleanup' = "failed"
  /\ \/ UncaughtFault
     \/ UNCHANGED <<exited, exitCode>>
  /\ UNCHANGED <<mode, pc, handlers, isShuttingDown, signals, cleanUpAt,
                 pollVars, hookVars, histVars, updVars, mwVars>>

(* --------------------------- webhook path ------------------------------ *)
\* mutant: every family other than "IPv4" is bracketed
ServerUrlBracketUnlessIPv4(info) ==
  IF info.family # "IPv4"
    THEN "http://[" \o info.address \o "]:" \o ToString(info.port)
    ELSE "http://" \o info.address \o ":" \o ToString(info.port)

\* main.ts 84-87: the url of the "Server started" event
ServerUrl(info) ==
  IF info.family = "IPv6"
    THEN "http://[" \o info.address \o "]:" \o ToString(info.port)
    ELSE "http://" \o info.address \o ":" \o ToString(info.port)

\* mutant: onShutdown is not called before bot.init()
startWebhookNoRegister ==
  /\ UNCHANGED <<handlers, isShuttingDown>>
  /\ initCalls' = initCalls + 1
  /\ pc' = "init"
  /\ UNCHANGED <<startCalls, startArgs, polling, steps>>

\* main.ts 51-79: startWebhook up to its await of bot.init(): createBot,
\* createServer, the two closures, onShutdown, then bot.init() is called
startWebhook ==
  /\ onShutdown
  /\ initCalls' = initCalls + 1
  /\ pc' = "init"
  /\ UNCHANGED <<startCalls, startArgs, polling, steps>>

BeginWebhook ==
  /\ ~exited
  /\ pc = "boot"
  /\ Dispatch = "startWebhook"
  /\ startWebhook
  /\ UNCHANGED <<mode, exited, exitCode, signals, cleanUpAt, cleanup,
                 stopCalls, botInited, serverHandle, server, serveCalls,
                 boundInfo, closeCalls, closeCbFired, webhookCalls,
                 webhookArgs, failed, catches, log, updVars, mwVars>>

\* main.ts 32, 52-53, 106-109: createBot or createServer throws (e.g. the
\* token is rejected): nothing of the path has run, the catch ends the process
CreateThrows ==
  /\ ~exited
  /\ pc = "boot"
  /\ Dispatch # "none"
  /\ TopLevelCatch("create")
  /\ pc' = "caught"
  /\ UNCHANGED <<mode, shutVars, pollVars, hookVars, steps, updVars, mwVars>>

\* main.ts 56-66: startServer: serve(...) is called, its result is kept in
\* serverHandle, the promise resolves when the listener reports its address
startServer ==
  /\ serveCalls' = serveCalls + 1
  /\ serverHandle' = TRUE
  /\ server' = "binding"
  /\ pc' = "bind"

\* mutant: startServer() is not awaited, setWebhook is called at once
InitResolveNoAwaitServer ==
  /\ ~exited
  /\ pc = "init"
  /\ botInited' = TRUE
  /\ serveCalls' = serveCalls + 1
  /\ serverHandle' = TRUE
  /\ server' = "binding"
  /\ steps' = steps \o <<"init", "setWebhook">>
  /\ webhookCalls' = webhookCalls + 1
  /\ webhookArgs' = [url |-> config.BOT_WEBHOOK,
                     allowed_updates |-> config.BOT_ALLOWED_UPDATES,
                     secret_token |-> config.BOT_WEBHOOK_SECRET]
  /\ pc' = "setWebhook"
  /\ UNCHANGED <<mode, exited, exitCode, shutVars, pollVars, initCalls,
                 boundInfo, closeCalls, closeCbFired, failed, catches, log,
                 updVars, mwVars>>

\* main.ts 79-81: bot.init() resolves, then startServer() is called
InitResolve ==
  /\ ~exited
  /\ pc = "init"
  /\ botInited' = TRUE
  /\ steps' = Append(steps, "init")
  /\ startServer
  /\ UNCHANGED <<mode, exited, exitCode, shutVars, pollVars, initCalls,
                 boundInfo, closeCalls, closeCbFired, webhookCalls,
                 webhookArgs, failed, catches, log, updVars, mwVars>>

\* main.ts 79, 102, 106-109: bot.init() rejects
InitReject ==
  /\ ~exited
  /\ pc = "init"
  /\ TopLevelCatch("init")
  /\ pc' = "caught"
  /\ UNCHANGED <<mode, shutVars, pollVars, hookVars, steps, updVars, mwVars>>

\* main.ts 57-65, 81, 106-109: bot.init() resolves and serve(...) throws
\* synchronously (e.g. a port out of range): serverHandle stays undefined,
\* the executor's throw rejects the promise, the catch ends the process
ServeThrows ==
  /\ ~exited
  /\ pc = "init"
  /\ botInited' = TRUE
  /\ steps' = Append(steps, "init")
  /\ serveCalls' = serveCalls + 1
  /\ TopLevelCatch("listen")
  /\ pc' = "caught"
  /\ UNCHANGED <<mode, shutVars, pollVars, initCalls, serverHandle, server,
                 boundInfo, closeCalls, closeCbFired, webhookCalls,
                 webhookArgs, updVars, mwVars>>

\* main.ts 90-93: bot.api.setWebhook(config.BOT_WEBHOOK, {...}) is called
callSetWebhook ==
  /\ webhookCalls' = webhookCalls + 1
  /\ webhookArgs' = [url |-> config.BOT_WEBHOOK,
                     allowed_updates |-> config.BOT_ALLOWED_UPDATES,
                     secret_token |-> config.BOT_WEBHOOK_SECRET]

\* main.ts 64, 81-93: the listener reports its address: startServer's promise
\* resolves, "Server started" is logged, setWebhook is called
BindResolve ==
  /\ ~exited
  /\ pc = "bind"
  /\ server = "binding"
  /\ \E info \in AddressInfos :
       /\ boundInfo' = info
       /\ log' = Append(log, LogInfo("Server started", ServerUrl(info)))
  /\ server' = "listening"
  /\ steps' = steps \o <<"listen", "setWebhook">>
  /\ callSetWebhook
  /\ pc' = "setWebhook"
  /\ UNCHANGED <<mode, exited, exitCode, shutVars, pollVars, initCalls,
                 botInited, serverHandle, serveCalls, closeCalls,
                 closeCbFired, failed, catches, updVars, mwVars>>

\* main.ts 57-65: the bind fails after serve(...) returned (address in use,
\* no permission): the server emits 'error'; the promise has no reject path
\* and nothing listens for the event, so the runtime ends the process
BindError ==
  /\ ~exited
  /\ pc = "bind"
  /\ server = "binding"
  /\ server' = "closed"
  /\ failed' = "listen"
  /\ UncaughtFault
  /\ UNCHANGED <<mode, pc, shutVars, pollVars, initCalls, botInited,
                 serverHandle, serveCalls, boundInfo, closeCalls,
                 closeCbFired, webhookCalls, webhookArgs, steps, catches,
                 log, updVars, mwVars>>

\* main.ts 58-65, 70: close() reached the server while it was still binding
\* and the runtime gives the bind up: the listener never reports an address
BindCancelled ==
  /\ ~exited
  /\ pc = "bind"
  /\ server = "binding"
  /\ closeCalls > 0
  /\ server' = "closed"
  /\ UNCHANGED <<procVars, shutVars, pollVars, initCalls, botInited,
                 serverHandle, serveCalls, boundInfo, closeCalls,
                 closeCbFired, webhookCalls, webhookArgs, histVars, updVars,
                 mwVars>>

\* main.ts 90-97: setWebhook resolves, "Webhook was set" is logged,
\* startWebhook returns
SetWebhookResolve ==
  /\ ~exited
  /\ pc = "setWebhook"
  /\ log' = Append(log, LogInfo("Webhook was set", config.BOT_WEBHOOK))
  /\ pc' = "started"
  /\ UNCHANGED <<mode, exited, exitCode, shutVars, pollVars, hookVars,
                 steps, failed, catches, updVars, mwVars>>

\* main.ts 90, 102, 106-109: setWebhook rejects
SetWebhookReject ==
  /\ ~exited
  /\ pc = "setWebhook"
  /\ TopLevelCatch("setWebhook")
  /\ pc' = "caught"
  /\ UNCHANGED <<mode, shutVars, pollVars, hookVars, steps, updVars, mwVars>>

\* main.ts 70, 77, 21: the callback given to serverHandle.close fires:
\* stopServer's promise resolves and cleanUp is complete
CloseCallback ==
  /\ ~exited
  /\ mode = "webhook"
  /\ cleanup = "running"
  /\ closeCalls > 0
  /\ ~closeCbFired
  /\ closeCbFired' = TRUE
  /\ cleanup' = "done"
  /\ server' = IF server = "closing" THEN "closed" ELSE server
  /\ UNCHANGED <<procVars, handlers, isShuttingDown, signals, cleanUpAt,
                 pollVars, initCalls, botInited, serverHandle, serveCalls,
                 boundInfo, closeCalls, webhookCalls, webhookArgs, histVars,
                 updVars, mwVars>>

(* --------------------------- /start feature ---------------------------- *)
\* mutant: the command is registered on the composer, not on the filtered one
chatTypeFilterOmitted(u) == TRUE

\* start.ts 7: composer.chatType("private") lets only private chats through
chatTypeFilter(u) == u.chatType = "private"

\* start.ts 9: feature.command("start", ...) lets only /start through
commandFilter(u) == u.command = "start"

\* mutant: the || "" fallback is missing
replyNameNoFallback(u) ==
  IF u.username # <<>> THEN u.username[1] ELSE "undefined"

\* start.ts 10: ctx.from.username || ""
replyName(u) ==
  IF u.username # <<>> /\ u.username[1] # "" THEN u.username[1] ELSE ""

\* start.ts 10: ctx.t("start.register", { name }): the localized template,
\* kept as its key and its interpolation argument
startReply(u) == [key |-> "start.register", name |-> replyName(u)]

\* a sequence of characters as a string
RECURSIVE Str(_)
Str(cs) == IF cs = <<>> THEN "" ELSE cs[1] \o Str(Tail(cs))

\* mutant: String.prototype.includes in place of startsWith
includes(s, prefix) ==
  \E k \in 0..(Len(s) - Len(prefix)) :
    SubSeq(s, k + 1, k + Len(prefix)) = prefix

\* logging.ts 16: String.prototype.startsWith
startsWith(s, prefix) ==
  /\ Len(s) >= Len(prefix)
  /\ SubSeq(s, 1, Len(prefix)) = prefix

\* logging.ts 5-10: getUpdateInfo: ctx.update without its update_id
getUpdateInfo(update) ==
  [f \in DOMAIN update \ {"update_id"} |-> update[f]]

\* logging.ts 14-17: the event logHandle(id) emits before calling next():
\* msg, and the stripped update when id starts with "unhandled"
logHandle(id, update) ==
  [level |-> "info", msg |-> "Handle \"" \o Str(id) \o "\""]
    @@ (IF startsWith(id, IdUnhandled)
          THEN [update |-> getUpdateInfo(update)]
          ELSE <<>>)

\* start.ts 5-11: welcomeFeature applied to one update: the filters, then
\* the log middleware, then the handler's reply
welcomeFeature(u) ==
  IF chatTypeFilter(u) /\ commandFilter(u)
    THEN /\ ctxLog' = Append(ctxLog, logHandle(IdCommandStart,
                                                WithId(u, updatesSeen + 1)))
         /\ handled' = Append(handled, u)
         /\ replies' = Append(replies, startReply(u))
    ELSE UNCHANGED <<ctxLog, handled, replies>>

\* the bot takes updates while its poll loop is live, or while the webhook
\* listener accepts requests for an initialized bot
Receiving ==
  \/ polling = "live"
  \/ server = "listening" /\ botInited

HandleUpdate ==
  /\ ~exited
  /\ Receiving
  /\ updatesSeen < MaxUpdates
  /\ \E u \in Updates :
       /\ lastUpdate' = u
       /\ welcomeFeature(u)
  /\ updatesSeen' = updatesSeen + 1
  /\ UNCHANGED <<procVars, shutVars, pollVars, hookVars, histVars, mwVars>>

(* ------------------------ logHandle middleware ------------------------- *)
\* logging.ts 13: the framework invokes the middleware returned by
\* logHandle(id) with a context and the rest of the chain
MwEnter ==
  /\ mwPc \in {"idle", "delegated"}
  /\ mwId' \in HandlerIds
  /\ mwCtx' \in CtxUpdates
  /\ mwPc' = "entered"
  /\ mwEvents' = <<>>
  /\ mwNextCalls' = 0
  /\ UNCHANGED <<procVars, shutVars, pollVars, hookVars, histVars, updVars>>

\* logging.ts 14-17: ctx.logger.info({...})
MwLog ==
  /\ mwPc = "entered"
  /\ mwEvents' = Append(mwEvents, logHandle(mwId, mwCtx))
  /\ mwPc' = "logged"
  /\ UNCHANGED <<procVars, shutVars, pollVars, hookVars, histVars, updVars,
                 mwId, mwCtx, mwNextCalls>>

\* logging.ts 19: return next()
MwNext ==
  /\ mwPc = "logged"
  /\ mwNextCalls' = mwNextCalls + 1
  /\ mwPc' = "delegated"
  /\ UNCHANGED <<procVars, shutVars, pollVars, hookVars, histVars, updVars,
                 mwId, mwCtx, mwEvents>>

\* a middleware built by logHandle, invoked over and over with any id and
\* any update
InitLog ==
  /\ ProcInit
  /\ mwId \in HandlerIds
  /\ mwCtx \in CtxUpdates
  /\ mwPc = "entered"
  /\ mwEvents = <<>>
  /\ mwNextCalls = 0

NextLog ==
  \/ MwEnter
  \/ MwLog
  \/ MwNext

SpecLog == InitLog /\ [][NextLog]_vars

(* ----------------------------- process end ----------------------------- *)
\* nothing keeps the event loop alive: no awaited call in flight, no poll
\* loop, no listener, no cleanUp in progress
LoopDrained ==
  /\ cleanup # "running"
  /\ polling \in {"off", "ended"}
  /\ server \in {"absent", "closed"}
  /\ pc \in {"returned", "started", "bind"}

\* main.ts 100-105: the event loop drains.  With the top-level await
\* settled the process ends with status 0; with startServer's promise still
\* pending the runtime ends it with status 13 (unsettled top-level await)
ExitNatural ==
  /\ ~exited
  /\ LoopDrained
  /\ exited' = TRUE
  /\ exitCode' = IF pc = "bind" THEN 13 ELSE 0
  /\ UNCHANGED <<mode, pc, shutVars, pollVars, hookVars, histVars, updVars,
                 mwVars>>

(* --------------------------- specification ----------------------------- *)
Next ==
  \/ BeginPolling
  \/ BeginWebhook
  \/ CreateThrows
  \/ SignalDelivery
  \/ StartLive
  \/ StartReject
  \/ StartReturn
  \/ StopResolve
  \/ StopReject
  \/ InitResolve
  \/ InitReject
  \/ ServeThrows
  \/ BindResolve
  \/ BindError
  \/ BindCancelled
  \/ SetWebhookResolve
  \/ SetWebhookReject
  \/ CloseCallback
  \/ HandleUpdate
  \/ ExitNatural

Spec == Init /\ [][Next]_vars

\* the event loop keeps running: a poll-loop setup that can complete does,
\* a stopped loop returns, an awaited bot.stop() settles, a closed listener
\* calls back, and a process with nothing left to do ends
SpecFair ==
  /\ Spec
  /\ WF_vars(StartLive)
  /\ WF_vars(StartReturn)
  /\ WF_vars(StopResolve \/ StopReject)
  /\ WF_vars(CloseCallback)
  /\ WF_vars(ExitNatural)

TypeOK ==
  /\ mode \in Modes
  /\ pc \in {"boot", "polling", "returned", "init", "bind", "setWebhook",
             "started", "caught"}
  /\ exited \in BOOLEAN
  /\ exitCode \in {0, 1, 13, 130, 143}
  /\ handlers \subseteq Signals
  /\ isShuttingDown \in BOOLEAN
  /\ cleanup \in {"idle", "running", "done", "failed"}
  /\ polling \in {"off", "starting", "live", "stopping", "ended"}
  /\ server \in {"absent", "binding", "listening", "closing", "closed"}
  /\ serverHandle \in BOOLEAN
  /\ closeCbFired \in BOOLEAN
  /\ Len(signals) <= MaxSignals
  /\ updatesSeen <= MaxUpdates

(* ------------------------------ claims --------------------------------- *)
StartupOrder == <<"init", "listen", "setWebhook">>
IsPrefix(a, b) == Len(a) <= Len(b) /\ \A i \in 1..Len(a) : a[i] = b[i]
ConfiguredWebhookArgs ==
  [url |-> config.BOT_WEBHOOK,
   allowed_updates |-> config.BOT_ALLOWED_UPDATES,
   secret_token |-> config.BOT_WEBHOOK_SECRET]

\* C1: once onShutdown has registered the handlers, whatever SIGINT/SIGTERM
\* sequence (length >= 1) is delivered, cleanUp has been invoked exactly
\* once, by the first delivery; later deliveries (also while cleanUp is
\* still awaiting) invoke nothing: the path's stop/close is called once.
C1_CleanUpExactlyOnceOnFirstSignal ==
  /\ Len(cleanUpAt) <= 1
  /\ (handlers = Signals /\ Len(signals) >= 1) =>
       /\ cleanUpAt = <<1>>
       /\ isShuttingDown
       /\ stopCalls = (IF mode = "polling" THEN 1 ELSE 0)
       /\ closeCalls <= 1

\* both signals delivered, the second while the first cleanUp still awaits
C1_Witness ==
  /\ Len(signals) >= 2
  /\ signals[1] # signals[2]
  /\ cleanup = "running"
  /\ cleanUpAt = <<1>>

\* C2: in webhook mode the startup steps happen in the order init completes,
\* listener reports its address, setWebhook is called with the configured
\* url, allowed updates and secret; the listener is never started before
\* init completed and setWebhook is never called before the listener
\* reported; a run without failure ends with all three done once.
C2_WebhookStartupOrder ==
  mode = "webhook" =>
    /\ IsPrefix(steps, StartupOrder)
    /\ serveCalls > 0 => botInited /\ steps # <<>> /\ steps[1] = "init"
    /\ webhookCalls > 0 =>
         /\ boundInfo \in AddressInfos
         /\ HasMsg(log, "Server started")
         /\ serveCalls > 0
         /\ webhookArgs = ConfiguredWebhookArgs
    /\ pc = "started" =>
         /\ steps = StartupOrder
         /\ initCalls = 1 /\ serveCalls = 1 /\ webhookCalls = 1
         /\ failed = "none"

C2_Witness ==
  /\ mode = "webhook"
  /\ pc = "started"
  /\ server = "listening"
  /\ signals = <<>>

\* C3: in webhook mode, when bot.init, the listener bind or setWebhook
\* fails, no later startup step has executed and the process has exited
\* with code 1.
C3_WebhookFailureAborts ==
  (mode = "webhook" /\ failed \in {"init", "listen", "setWebhook"}) =>
    /\ exited
    /\ exitCode = 1
    /\ failed = "init" =>
         serveCalls = 0 /\ server = "absent" /\ webhookCalls = 0 /\ steps = <<>>
    /\ failed = "listen" =>
         webhookCalls = 0 /\ server # "listening" /\ steps = <<"init">>
    /\ failed = "setWebhook" => ~HasMsg(log, "Webhook was set")
    /\ pc # "started"

C3_Witness ==
  /\ mode = "webhook"
  /\ failed = "setWebhook"
  /\ exited
  /\ exitCode = 1
  /\ server = "listening"

\* C4: in polling mode bot.start is invoked with the configured allowed
\* updates and no listener is ever bound nor setWebhook called; in webhook
\* mode bot.start is never invoked and no poll loop runs.
C4_ModeSeparation ==
  /\ mode = "polling" =>
       /\ serveCalls = 0 /\ ~serverHandle /\ server = "absent"
       /\ webhookCalls = 0 /\ initCalls = 0
       /\ (pc # "boot" /\ failed # "create") =>
            /\ startCalls = 1
            /\ startArgs.allowed_updates = config.BOT_ALLOWED_UPDATES
  /\ mode = "webhook" => startCalls = 0 /\ polling = "off" /\ stopCalls = 0

C4_Witness ==
  /\ mode = "polling"
  /\ polling = "live"
  /\ startCalls = 1
  /\ updatesSeen > 0

\* C5: whenever bot.start (polling) or bot.init (webhook) has been called,
\* the shutdown handlers are already registered, so a signal delivered
\* during or after that call is handled by the path's cleanup action and
\* never by the default disposition.
C5_RegisteredBeforeBlockingCall ==
  (startCalls > 0 \/ initCalls > 0) =>
    /\ handlers = Signals
    /\ ~(exited /\ exitCode \in {SignalExit("SIGINT"), SignalExit("SIGTERM")})
    /\ Len(signals) >= 1 =>
         /\ Len(cleanUpAt) = 1
         /\ cleanup # "idle"
         /\ mode = "polling" => stopCalls = 1

\* a signal arrived while bot.init was still pending and ran stopServer
C5_Witness ==
  /\ mode = "webhook"
  /\ pc = "init"
  /\ Len(signals) >= 1
  /\ cleanup = "done"
  /\ cleanUpAt = <<1>>

\* C6: an error the startup path rejects with is caught once by the
\* top-level catch, logged as the last event before the process exits with
\* status 1, and no startup step is tried again; a shutdown after a startup
\* path that returned without failure, with cleanUp completed, ends the
\* process with status 0.
C6_CaughtOnceLoggedExit1 ==
  /\ catches <= 1
  /\ failed \in {"create", "init", "start", "setWebhook"} => catches = 1
  /\ catches = 1 =>
       /\ exited /\ exitCode = 1
       /\ failed # "none"
       /\ log # <<>> /\ log[Len(log)] = LogError(failed)
       /\ CountLevel(log, "error") = 1
  /\ catches = 0 => CountLevel(log, "error") = 0
  /\ initCalls <= 1 /\ startCalls <= 1 /\ serveCalls <= 1 /\ webhookCalls <= 1
  /\ (exited /\ pc \in {"returned", "started"} /\ failed = "none"
        /\ cleanup = "done") => exitCode = 0
  /\ (exited /\ exitCode = 1) => (failed # "none" \/ cleanup = "failed")

\* bot.start rejected after a signal had already started the shutdown
C6_Witness ==
  /\ failed = "start"
  /\ catches = 1
  /\ exitCode = 1
  /\ isShuttingDown

\* the webhook-path cleanUp has just been invoked by this step
StopServerInvoked ==
  mode = "webhook" /\ Len(cleanUpAt') = Len(cleanUpAt) + 1

\* C7: stopServer, invoked with no listener ever started (serverHandle
\* absent), completes at once and closes nothing; invoked with a listener
\* started, it calls close once and completes only when the close callback
\* has fired.
C7_StopServerTolerant ==
  /\ [](mode = "webhook" =>
          /\ cleanup = "done" => (closeCalls = 0 \/ closeCbFired)
          /\ cleanup = "running" => (closeCalls = 1 /\ ~closeCbFired)
          /\ closeCalls <= 1
          /\ closeCbFired => closeCalls = 1)
  /\ [][StopServerInvoked =>
          IF serverHandle
            THEN closeCalls' = closeCalls + 1 /\ cleanup' = "running"
            ELSE closeCalls' = closeCalls /\ cleanup' = "done"
                 /\ server' = server]_vars

\* a started listener was closed and the cleanup completed after the callback
C7_Witness ==
  /\ mode = "webhook"
  /\ cleanup = "done"
  /\ closeCalls = 1
  /\ closeCbFired
  /\ server = "closed"

\* C8: the url of the "Server started" event is http://[address]:port
\* exactly when the reported family is "IPv6" and http://address:port for
\* any other family; (127.0.0.1, 3000, IPv4) gives http://127.0.0.1:3000
\* and (::1, 3000, IPv6) gives http://[::1]:3000.
C8_ServerStartedUrl ==
  \A i \in 1..Len(log) :
    log[i].msg = "Server started" =>
      LET a == boundInfo.address
          p == ToString(boundInfo.port)
          bracketed == "http://[" \o a \o "]:" \o p
          plain == "http://" \o a \o ":" \o p
      IN  /\ boundInfo \in AddressInfos
          /\ (log[i].detail = bracketed) <=> (boundInfo.family = "IPv6")
          /\ (log[i].detail = plain) <=> (boundInfo.family # "IPv6")
          /\ boundInfo = [address |-> "127.0.0.1", port |-> 3000,
                          family |-> "IPv4"]
               => log[i].detail = "http://127.0.0.1:3000"
          /\ boundInfo = [address |-> "::1", port |-> 3000,
                          family |-> "IPv6"]
               => log[i].detail = "http://[::1]:3000"

C8_Witness ==
  /\ boundInfo = [address |-> "::1", port |-> 3000, family |-> "IPv6"]
  /\ HasMsg(log, "Server started")

\* C9: whatever updates arrive, the /start handler and its "command-start"
\* log middleware run only for updates from private chats.
C9_StartOnlyInPrivateChats ==
  /\ \A i \in 1..Len(handled) : handled[i].chatType = "private"
  /\ Len(ctxLog) = Len(handled)
  /\ Len(replies) = Len(handled)
  /\ (lastUpdate \in Updates /\ lastUpdate.chatType # "private") =>
       Len(handled) < updatesSeen

\* /start arrived from a group and from a channel; nothing was handled
C9_Witness ==
  /\ updatesSeen = 2
  /\ lastUpdate.chatType \in {"group", "supergroup", "channel"}
  /\ lastUpdate.command = "start"
  /\ handled = <<>>
  /\ ctxLog = <<>>

\* C10: each reply to /start in a private chat is the "start.register"
\* template with name = the sender's username when that is non-empty, and
\* name = "" when the sender has none.
C10_StartReplyName ==
  /\ Len(replies) = Len(handled)
  /\ \A i \in 1..Len(replies) :
       /\ replies[i].key = "start.register"
       /\ handled[i].command = "start"
       /\ (handled[i].username # <<>> /\ handled[i].username # <<"">>)
            => replies[i].name = handled[i].username[1]
       /\ handled[i].username = <<>> => replies[i].name = ""
       /\ handled[i].username = <<"alice">> => replies[i].name = "alice"

C10_Witness ==
  /\ Len(replies) = 2
  /\ handled[1].username = <<"alice">>
  /\ replies[1].name = "alice"
  /\ handled[2].username = <<>>
  /\ replies[2].name = ""

\* the ids of HandlerIds that begin with the characters u n h a n d l e d
IdsWithUnhandledPrefix == {IdUnhandledUpdate, IdUnhandled, IdUnhandledX}
BeginsWithUnhandled(id) ==
  /\ Len(id) >= Len(IdUnhandled)
  /\ \A i \in 1..Len(IdUnhandled) : id[i] = IdUnhandled[i]

\* C11: for every handler id and every update, the middleware of
\* logHandle(id) emits exactly one info event and then calls next() exactly
\* once, the event first; the event carries the update, without update_id
\* and otherwise unchanged, exactly when id starts with "unhandled".
C11_LogHandleLogsThenDelegates ==
  /\ mwPc = "entered" => (mwEvents = <<>> /\ mwNextCalls = 0)
  /\ mwPc = "logged" => (Len(mwEvents) = 1 /\ mwNextCalls = 0)
  /\ mwPc = "delegated" => (Len(mwEvents) = 1 /\ mwNextCalls = 1)
  /\ mwNextCalls <= 1
  /\ \A i \in 1..Len(mwEvents) :
       LET e == mwEvents[i] IN
       /\ e.level = "info"
       /\ e.msg = "Handle \"" \o Str(mwId) \o "\""
       /\ ("update" \in DOMAIN e) <=> BeginsWithUnhandled(mwId)
       /\ ("update" \in DOMAIN e) <=> (mwId \in IdsWithUnhandledPrefix)
       /\ "update" \in DOMAIN e =>
            /\ DOMAIN e.update = DOMAIN mwCtx \ {"update_id"}
            /\ \A f \in DOMAIN e.update : e.update[f] = mwCtx[f]
  /\ (mwPc = "logged" /\ mwId = IdCommandStart) =>
       mwEvents = <<[level |-> "info", msg |-> "Handle \"command-start\""]>>

\* the middleware of "unhandled-update" has logged the stripped update and
\* delegated
C11_Witness ==
  /\ mwId = IdUnhandledUpdate
  /\ mwPc = "delegated"
  /\ mwNextCalls = 1
  /\ Len(mwEvents) = 1
  /\ mwEvents[1].update =
       [chatType |-> "group", command |-> "help", username |-> <<"alice">>]

\* C12: isShuttingDown starts false; it changes at most once, from false to
\* true, in the step that handles the first termination signal; it is true
\* in every state in which cleanUp has been invoked; it is never reset.
C12_FlagSetOnceByFirstSignal ==
  /\ ~isShuttingDown
  /\ [](/\ cleanUpAt # <<>> => isShuttingDown
        /\ cleanup # "idle" => isShuttingDown
        /\ stopCalls > 0 => isShuttingDown
        /\ closeCalls > 0 => isShuttingDown
        /\ isShuttingDown => (signals # <<>> /\ cleanUpAt = <<1>>)
        /\ signals = <<>> => ~isShuttingDown)
  /\ [][/\ isShuttingDown => isShuttingDown'
        /\ isShuttingDown' # isShuttingDown =>
             /\ ~isShuttingDown /\ isShuttingDown'
             /\ signals = <<>> /\ Len(signals') = 1
             /\ signals'[1] \in handlers
             /\ cleanUpAt = <<>> /\ cleanUpAt' = <<1>>]_vars

\* three signals were handled and cleanUp finished: the flag is still true
C12_Witness ==
  /\ isShuttingDown
  /\ Len(signals) = 3
  /\ cleanup = "done"
  /\ ~exited

\* C13: when cleanUp rejects, the coordinator neither catches nor retries:
\* nothing is logged as an error, the flag stays true, the failure stays,
\* and every later SIGINT/SIGTERM returns without invoking cleanUp again.
C13_CleanUpFailureNotRetried ==
  /\ [](cleanup = "failed" =>
          /\ isShuttingDown
          /\ cleanUpAt = <<1>>
          /\ stopCalls = 1
          /\ catches = 0
          /\ CountLevel(log, "error") = 0
          /\ exited => exitCode \in {0, 1})
  /\ [][cleanup = "failed" =>
          /\ cleanup' = "failed"
          /\ isShuttingDown'
          /\ UNCHANGED <<cleanUpAt, stopCalls, closeCalls, log>>]_vars

\* bot.stop() rejected, the process carried on and took all its signals
C13_Witness ==
  /\ cleanup = "failed"
  /\ ~exited
  /\ isShuttingDown
  /\ Len(signals) = 3
  /\ cleanUpAt = <<1>>

C15_NoListenerAfterCleanUp ==
  (mode = "webhook" /\ cleanup = "done") =>
    /\ server # "listening"
    /\ closeCalls = 0 => (serveCalls = 0 /\ webhookCalls = 0)

C16_StoppedLoopEndsWithExit0 ==
  [](( mode = "polling" /\ polling = "stopping") =>
       <>(\/ cleanup = "failed"
          \/ /\ exited /\ exitCode = 0
             /\ polling = "ended" /\ pc = "returned"))

====
